---- MODULE Spec2Model ----
(***************************************************************************)
(* TFRecordDatasetSampler (tensorflow_similarity/samplers/                 *)
(* tfrecords_samplers.py): the tf.data pipeline                            *)
(*   matching_files -> from_tensor_slices -> shuffle -> interleave ->      *)
(*   map -> repeat -> batch -> prefetch                                    *)
(* as a state machine.  A raw record is <<shard, index>>; the label of a   *)
(* record is files[shard][index].                                          *)
(***************************************************************************)
EXTENDS Integers, Sequences, FiniteSets, TLC

VARIABLES
    files,      \* the shard files matched by shard_path/shard_suffix: a sequence of label sequences
    args,       \* the arguments of TFRecordDatasetSampler
    ds,         \* what construction computed: status, total_shards, prefetch_size, cycle_length, num_parallel_calls
    rep,        \* repeat: the upstream iterator ("none", "open", "end"), passes finished, first_call
    order,      \* shuffle: the shard order of the current pass
    il,         \* interleave: next_input, slots, cycle_index, block_index, end_of_input, num_open
    pos,        \* TFRecordDataset readers: records read so far from each shard in this pass
    ready,      \* interleave: per shard, the records the fetch workers have read and interleave has not yielded
    pending,    \* batch: the examples of the batch being assembled
    buffer,     \* prefetch: the batches waiting for the consumer
    eos,        \* prefetch: the producer has reached the end of the sequence
    last,       \* consumer: what the last request returned ("none", "batch", "OutOfRange")
    produced,   \* history: the batches the batcher has emitted, in order
    delivered,  \* history: the batches the consumer has received, in order
    orders,     \* history: the shard order of every pass started
    out,        \* history: the raw records interleave has yielded in the current pass
    record,     \* whether the history variables are kept (they are not in the liveness specification)
    calls       \* map: the calls of deserialization_fn in flight, in the order of their input records

vars == <<files, args, ds, rep, order, il, pos, ready, pending, buffer, eos, last,
          produced, delivered, orders, out, record, calls>>

----------------------------------------------------------------------------
(* Bounds of the model *)

MaxPass == 2

MaxStream == 6

LongPasses == 3

(* prefetch_size when not given *)
DefaultPrefetch == 10

(* num_repeat = -1: repeat forever *)
Infinite == -1

(* parallelism = tf.data.AUTOTUNE: the degree of parallelism is chosen at run time *)
AUTOTUNE == -1

(* the largest degree of parallelism the run time chooses *)
MaxParallel == 2

(* the records a fetch worker reads ahead of the stream for one slot *)
MaxAhead == 1

----------------------------------------------------------------------------
(* Inputs *)

Min(a, b) == IF a < b THEN a ELSE b

RECURSIVE SumLen(_)
SumLen(fs) == IF fs = <<>> THEN 0 ELSE Len(Head(fs)) + SumLen(Tail(fs))

RECURSIVE Flatten(_)
Flatten(ss) == IF ss = <<>> THEN <<>> ELSE Head(ss) \o Flatten(Tail(ss))

(* A shard file of n records: two records per class, classes of shard s are 10*s, 10*s+1, ... *)
FileOf(s, n) == [i \in 1..n |-> 10 * s + ((i - 1) \div 2)]

ShardCounts == 0..3

ShardLens == {0, 2, 3, 4}

(* The catalogs: the shard files matched; the order of the list is irrelevant *)
(* (it is shuffled), so the lengths are taken non-increasing.                 *)
Catalogs ==
    UNION { { [s \in 1..n |-> FileOf(s, lens[s])] :
                lens \in { l \in [1..n -> ShardLens] :
                             \A s \in 1..n : s < n => l[s] >= l[s + 1] } } :
            n \in ShardCounts }

(* An optional int argument (Optional[int] = None): None, or the int given *)
None == <<>>

Some(n) == <<n>>

Val(o) == o[1]

ArgSets ==
    { a \in [ example_per_class : {1, 2},
              batch_size        : {2, 4},
              shards_per_cycle  : {None, Some(1), Some(2)},
              async_cycle       : BOOLEAN,
              prefetch_size     : {None, Some(1)},
              parallelism       : {2},
              num_repeat        : {Infinite} \cup (1..MaxPass) ] :
        a.batch_size \in {2, 2 * a.example_per_class} }

(* the passes a run of the model makes: a stream that repeats forever is followed for MaxPass passes *)
Passes(a) == IF a.num_repeat = Infinite THEN MaxPass ELSE a.num_repeat

(* the inputs: the records read over all passes are at most MaxStream; the catalogs of *)
(* more than two shards are read once, with a prefetch buffer of one batch and a     *)
(* shards_per_cycle that is given                                                    *)
Inputs ==
    { x \in Catalogs \X ArgSets :
        /\ SumLen(x[1]) * Passes(x[2]) <= MaxStream
        /\ Len(x[1]) > 2 => (x[2].prefetch_size = Some(1) /\ x[2].num_repeat = 1
                              /\ x[2].shards_per_cycle # None) }

(* long runs of single examples: more batches than the default prefetch buffer holds *)
LongInputs ==
    { <<f, a>> : f \in { <<FileOf(1, 4)>> },
                 a \in [ example_per_class : {1},
                         batch_size        : {1},
                         shards_per_cycle  : {Some(2)},
                         async_cycle       : BOOLEAN,
                         prefetch_size     : {None, Some(1)},
                         parallelism       : {AUTOTUNE},
                         num_repeat        : {LongPasses} ] }

Perms(n) == { p \in [1..n -> 1..n] : \A i, j \in 1..n : p[i] = p[j] => i = j }

----------------------------------------------------------------------------
(* Construction: lines 102-137 *)

(* variant: a test for None (is not None) *)
Given(o) == o # None

(* the truth value of an optional int: None and 0 are false *)
Truthy(o) == o # None /\ Val(o) # 0

(* ds.shuffle(total_shards): the sampler checks nothing between matching_files and    *)
(* this call; tf.data requires buffer_size > 0 and raises InvalidArgumentError       *)
(* ("buffer_size must be greater than zero") when the dataset is built, that is      *)
(* inside TFRecordDatasetSampler                                                     *)
ShuffleAccepts(buffer_size) == buffer_size > 0

(* the error the caller of TFRecordDatasetSampler gets: the one ds.shuffle raises,   *)
(* which passes through the sampler unchanged; the sampler raises none of its own    *)
ErrorRaised(total_shards) ==
    IF ShuffleAccepts(total_shards) THEN "none" ELSE "InvalidArgumentError"

prefetch_size_of(a) ==
    IF ~Truthy(a.prefetch_size) THEN DefaultPrefetch ELSE Val(a.prefetch_size)

cycle_length_of(a, total_shards) ==
    IF Truthy(a.shards_per_cycle) THEN Val(a.shards_per_cycle) ELSE total_shards

num_parallel_calls_of(a, cycle_length) == IF a.async_cycle THEN cycle_length ELSE 1

NoIter == [next_input |-> 1, slots |-> <<>>, cycle_index |-> 1, block_index |-> 0,
           end_of_input |-> FALSE, num_open |-> 0]

NewIter(cycle_length) == [NoIter EXCEPT !.slots = [c \in 1..cycle_length |-> 0]]

InitWith(rec, inputs) ==
    /\ \E x \in inputs : files = x[1] /\ args = x[2]
    /\ ds = [status |-> "new", error |-> "none", total_shards |-> 0, prefetch_size |-> 0,
             cycle_length |-> 0, num_parallel_calls |-> 0]
    /\ rep = [iter |-> "none", i |-> 0, first_call |-> TRUE]
    /\ order = <<>>
    /\ il = NoIter
    /\ pos = [s \in 1..Len(files) |-> 0]
    /\ ready = [s \in 1..Len(files) |-> <<>>]
    /\ pending = <<>>
    /\ buffer = <<>>
    /\ eos = FALSE
    /\ last = "none"
    /\ produced = <<>>
    /\ delivered = <<>>
    /\ orders = <<>>
    /\ out = <<>>
    /\ record = rec
    /\ calls = <<>>

Init == InitWith(TRUE, Inputs \cup LongInputs)

(* TFRecordDatasetSampler(...): builds the dataset, or raises *)
Construct ==
    /\ ds.status = "new"
    /\ LET total_shards == Len(files)
           cycle_length == cycle_length_of(args, total_shards)
       IN  ds' = [status |-> IF ShuffleAccepts(total_shards) THEN "ok" ELSE "failed",
                  error |-> ErrorRaised(total_shards),
                  total_shards |-> total_shards,
                  prefetch_size |-> prefetch_size_of(args),
                  cycle_length |-> cycle_length,
                  num_parallel_calls |-> num_parallel_calls_of(args, cycle_length)]
    /\ UNCHANGED <<files, args, rep, order, il, pos, ready, pending, buffer, eos, last,
                   produced, delivered, orders, out, record, calls>>

----------------------------------------------------------------------------
(* The producer: prefetch's thread pulls batch <- repeat <- map; map's runner pulls *)
(* interleave <- shuffle; interleave's workers read the shards                       *)

(* variant: a producer that never waits *)
BufferUnbounded == TRUE

(* variant: the producer stops one batch short of prefetch_size *)
BufferHasRoomShort == Len(buffer) < ds.prefetch_size - 1

(* prefetch(prefetch_size): the producer waits while the buffer holds prefetch_size batches *)
BufferHasRoom == Len(buffer) < ds.prefetch_size

Producing == ds.status = "ok" /\ ~eos /\ BufferHasRoom

(* the label read from a record that deserialization_fn cannot parse *)
Bad == -1

(* map(deserialization_fn): whether deserialization_fn raises on the raw record *)
Malformed(r) == files[r[1]][r[2]] = Bad

(* the error status map returns for a malformed record: batch, then prefetch, pass it on *)
Failure(r) == <<[shard |-> r[1], idx |-> r[2], label |-> Bad]>>

IsFailure(b) == Len(b) = 1 /\ b[1].label = Bad

(* map(deserialization_fn): the example of a raw record *)
Deserialize(r) == [shard |-> r[1], idx |-> r[2], label |-> files[r[1]][r[2]]]

(* batch(batch_size): a batch is complete when it holds batch_size examples *)
BatchFull(b) == Len(b) = args.batch_size

(* batch(batch_size) is called without drop_remainder, which defaults to False *)
drop_remainder == FALSE

(* what batch emits for the examples left when its input ends *)
Remainder(b) == IF b = <<>> \/ drop_remainder THEN <<>> ELSE <<b>>

(* variant: -1 taken as a count *)
RepeatAgainCounted(count, i, first_call) == i < count

(* repeat(count): after an upstream pass ended, whether another one is started.       *)
(* count = -1 repeats forever, except that a pass that yielded nothing ends the stream *)
RepeatAgain(count, i, first_call) ==
    IF count = Infinite THEN ~first_call ELSE i < count

(* interleave: AdvanceToNextInCycle *)
NextInCycle(c) == (c % ds.cycle_length) + 1

Hist(h, x) == IF record THEN Append(h, x) ELSE h

(* variant, reshuffle_each_iteration=False: every pass in the order of the first *)
ShuffleOnce(n, previous) == IF previous = <<>> THEN Perms(n) ELSE {previous}

(* shuffle(total_shards) over total_shards elements: the buffer holds them all, so a pass *)
(* can come out in any order, whatever the order of the pass before it                  *)
Shuffle(n, previous) == Perms(n)

(* repeat creates the upstream iterator of a pass; shuffle(total_shards) draws its order *)
StartPass ==
    /\ Producing
    /\ rep.iter = "none"
    /\ record /\ args.num_repeat = Infinite => Len(orders) < MaxPass
    /\ \E p \in Shuffle(ds.total_shards, order) :
         /\ order' = p
         /\ orders' = Hist(orders, p)
    /\ rep' = [rep EXCEPT !.iter = "open", !.first_call = TRUE]
    /\ il' = NewIter(ds.cycle_length)
    /\ pos' = [s \in 1..Len(files) |-> 0]
    /\ ready' = [s \in 1..Len(files) |-> <<>>]
    /\ out' = <<>>
    /\ UNCHANGED <<files, args, ds, pending, buffer, eos, last, produced, delivered, record, calls>>

(* map(num_parallel_calls=parallelism): the number of calls of deserialization_fn that *)
(* may be in flight; with AUTOTUNE tf.data chooses the number while the pipeline runs  *)
Degrees == IF args.parallelism = AUTOTUNE THEN 1..MaxParallel ELSE {args.parallelism}

(* map's runner asks interleave for a record whenever fewer calls are in flight than  *)
(* it may have, whatever the state of the stages after map; interleave has a record  *)
(* or a step to take until its input has ended and no shard is open                  *)
Iterating ==
    /\ ds.status = "ok"
    /\ rep.iter = "open"
    /\ \E d \in Degrees : Len(calls) < d
    /\ ~il.end_of_input \/ il.num_open > 0

(* interleave: the current slot is empty and the input has another shard: the shard *)
(* takes the slot (a worker may have opened its file and read ahead already)        *)
OpenShard ==
    /\ Iterating
    /\ il.slots[il.cycle_index] = 0
    /\ ~il.end_of_input
    /\ il.next_input <= Len(order)
    /\ il' = [il EXCEPT !.slots[il.cycle_index] = order[il.next_input],
                        !.next_input = @ + 1,
                        !.num_open = @ + 1]
    /\ UNCHANGED <<files, args, ds, rep, order, pos, ready, pending, buffer, eos, last,
                   produced, delivered, orders, out, record, calls>>

(* interleave: the current slot is empty and the input has ended *)
InputEnd ==
    /\ Iterating
    /\ il.slots[il.cycle_index] = 0
    /\ ~il.end_of_input
    /\ il.next_input > Len(order)
    /\ il' = [il EXCEPT !.end_of_input = TRUE]
    /\ UNCHANGED <<files, args, ds, rep, order, pos, ready, pending, buffer, eos, last,
                   produced, delivered, orders, out, record, calls>>

(* interleave: an empty slot after the end of the input is passed over *)
SkipSlot ==
    /\ Iterating
    /\ il.slots[il.cycle_index] = 0
    /\ il.end_of_input
    /\ il' = [il EXCEPT !.cycle_index = NextInCycle(@), !.block_index = 0]
    /\ UNCHANGED <<files, args, ds, rep, order, pos, ready, pending, buffer, eos, last,
                   produced, delivered, orders, out, record, calls>>

(* variant, deterministic=False: an element of any slot whose worker has one ready *)
TurnSlotSloppy ==
    IF \E c \in 1..ds.cycle_length : il.slots[c] # 0 /\ ready[il.slots[c]] # <<>>
    THEN CHOOSE c \in 1..ds.cycle_length : il.slots[c] # 0 /\ ready[il.slots[c]] # <<>>
    ELSE il.cycle_index

(* interleave, deterministic=True: the slot the next element is taken from *)
TurnSlot == il.cycle_index

(* interleave is given num_parallel_calls (1 or cycle_length, never None): the records *)
(* of a slot are read by the fetch workers, and the slot yields what they have read    *)
HasRecord(c) == ready[il.slots[c]] # <<>>

NextRecord(c) == Head(ready[il.slots[c]])

(* variant: the reader reports the end of the file one record early *)
ExhaustedEarly(c) ==
    /\ pos[il.slots[c]] >= Len(files[il.slots[c]]) - 1
    /\ ready[il.slots[c]] = <<>>

Exhausted(c) ==
    /\ pos[il.slots[c]] = Len(files[il.slots[c]])
    /\ ready[il.slots[c]] = <<>>

(* variant: block_length ignored, the turn passes on after every element *)
AfterElementEach(x) == [x EXCEPT !.cycle_index = NextInCycle(@), !.block_index = 0]

(* interleave after yielding an element of the current slot: block_length elements per turn *)
AfterElement(x) ==
    IF x.block_index + 1 = args.example_per_class
    THEN [x EXCEPT !.cycle_index = NextInCycle(@), !.block_index = 0]
    ELSE [x EXCEPT !.block_index = @ + 1]

(* map: a record leaves interleave and a call of deserialization_fn on it is started *)
MapCall ==
    /\ Iterating
    /\ LET c == TurnSlot IN
        /\ il.slots[c] # 0
        /\ HasRecord(c)
        /\ calls' = Append(calls, [rec |-> NextRecord(c), done |-> FALSE])
        /\ ready' = [ready EXCEPT ![il.slots[c]] = Tail(@)]
        /\ il' = IF c = il.cycle_index THEN AfterElement(il) ELSE il
    /\ out' = Hist(out, NextRecord(TurnSlot))
    /\ UNCHANGED <<files, args, ds, rep, order, pos, pending, buffer, eos, last, produced,
                   delivered, orders, record>>

(* map: a call of deserialization_fn returns, with an example or with an error *)
MapDone(i) ==
    /\ ds.status = "ok"
    /\ i \in 1..Len(calls)
    /\ ~calls[i].done
    /\ calls' = [calls EXCEPT ![i].done = TRUE]
    /\ UNCHANGED <<files, args, ds, rep, order, il, pos, ready, pending, buffer, eos, last,
                   produced, delivered, orders, out, record>>

(* variant, deterministic=False: the result of any call that has returned *)
ResultTurnAny(cs) ==
    IF \E i \in 1..Len(cs) : cs[i].done
    THEN CHOOSE i \in 1..Len(cs) : cs[i].done /\ \A j \in 1..Len(cs) : cs[j].done => j <= i
    ELSE 1

(* map without deterministic=False: the results are handed out in the order of the input *)
ResultTurn(cs) == 1

Without(cs, i) == SubSeq(cs, 1, i - 1) \o SubSeq(cs, i + 1, Len(cs))

(* prefetch's thread, in a call of batch: map hands out the example of the call whose *)
(* turn it is, repeat passes it on and batch collects it; a complete batch is stored  *)
(* in the buffer of prefetch                                                          *)
MapOut ==
    /\ Producing
    /\ rep.iter = "open"
    /\ calls # <<>>
    /\ LET i == ResultTurn(calls) IN
        /\ calls[i].done
        /\ ~Malformed(calls[i].rec)
        /\ calls' = Without(calls, i)
        /\ LET b == Append(pending, Deserialize(calls[i].rec)) IN
            IF BatchFull(b)
            THEN /\ pending' = <<>>
                 /\ buffer' = Append(buffer, b)
                 /\ produced' = Hist(produced, b)
            ELSE /\ pending' = b
                 /\ UNCHANGED <<buffer, produced>>
    /\ rep' = [rep EXCEPT !.first_call = FALSE]
    /\ UNCHANGED <<files, args, ds, order, il, pos, ready, eos, last, delivered, orders,
                   out, record>>

(* prefetch's thread, in a call of batch: the call whose turn it is has raised. map  *)
(* returns the error, repeat returns it as it got it, batch returns it and discards *)
(* the examples it had collected for the batch, and prefetch stores the error status *)
(* as the next element of its buffer and goes on producing                           *)
MapError ==
    /\ Producing
    /\ rep.iter = "open"
    /\ calls # <<>>
    /\ LET i == ResultTurn(calls) IN
        /\ calls[i].done
        /\ Malformed(calls[i].rec)
        /\ calls' = Without(calls, i)
        /\ pending' = <<>>
        /\ buffer' = Append(buffer, Failure(calls[i].rec))
        /\ produced' = Hist(produced, Failure(calls[i].rec))
    /\ UNCHANGED <<files, args, ds, rep, order, il, pos, ready, eos, last, delivered, orders,
                   out, record>>

(* variant: the block count of the shard that ended is carried over to the next slot *)
ReleaseSlotKeepBlock(x) ==
    [x EXCEPT !.slots[x.cycle_index] = 0,
              !.num_open = @ - 1,
              !.cycle_index = NextInCycle(@)]

(* interleave: the slot of a shard that has ended is emptied and the turn passes on, *)
(* wherever in its block the shard ended                                             *)
ReleaseSlot(x) ==
    [x EXCEPT !.slots[x.cycle_index] = 0,
              !.num_open = @ - 1,
              !.cycle_index = NextInCycle(@),
              !.block_index = 0]

(* interleave: the shard of the current slot has ended: the slot is released *)
CloseShard ==
    /\ Iterating
    /\ il.slots[il.cycle_index] # 0
    /\ Exhausted(il.cycle_index)
    /\ il' = ReleaseSlot(il)
    /\ UNCHANGED <<files, args, ds, rep, order, pos, ready, pending, buffer, eos, last,
                   produced, delivered, orders, out, record, calls>>

(* interleave is given num_parallel_calls and neither prefetch_input_elements nor    *)
(* buffer_output_elements: tf.data takes twice cycle_length elements of the input   *)
(* ahead of the cycle, and buffers up to twice block_length records of each element *)
prefetch_input_elements == 2 * ds.cycle_length

buffer_output_elements == Min(2 * args.example_per_class, MaxAhead)

(* the shards in the slots of the cycle *)
InCycle == { il.slots[c] : c \in { d \in 1..Len(il.slots) : il.slots[d] # 0 } }

(* the shards interleave has taken from its input ahead of the cycle: those that fill *)
(* the empty slots of the cycle and prefetch_input_elements more                      *)
AheadOfCycle ==
    { order[k] : k \in il.next_input ..
                       Min(Len(order), il.next_input - 1 + (ds.cycle_length - il.num_open)
                                                          + prefetch_input_elements) }

(* interleave(num_parallel_calls): a fetch worker reads the next record of a shard, *)
(* which opens the file at the first record; the shard is in the cycle or ahead of it *)
FetchWorker(s) ==
    /\ ds.status = "ok"
    /\ rep.iter = "open"
    /\ s \in InCycle \cup AheadOfCycle
    /\ Len(ready[s]) < buffer_output_elements
    /\ pos[s] < Len(files[s])
    /\ ready' = [ready EXCEPT ![s] = Append(@, <<s, pos[s] + 1>>)]
    /\ pos' = [pos EXCEPT ![s] = @ + 1]
    /\ UNCHANGED <<files, args, ds, rep, order, il, pending, buffer, eos, last,
                   produced, delivered, orders, out, record, calls>>

(* variant, batch under repeat: the examples collected are dropped when the pass ends *)
CarriedNone(p) == <<>>

(* batch is applied to the repeated stream: it does not see where a pass ends and *)
(* keeps the examples it has collected for the batch                             *)
Carried(p) == p

(* prefetch's thread, in a call of batch: map has ended (interleave has ended and no *)
(* call is in flight): repeat starts over or ends; when it ends, batch returns the  *)
(* examples it holds as a short batch, or the end of the stream when it holds none  *)
EndPass ==
    /\ Producing
    /\ rep.iter = "open"
    /\ il.end_of_input /\ il.num_open = 0
    /\ calls = <<>>
    /\ LET i == IF args.num_repeat = Infinite THEN rep.i ELSE rep.i + 1 IN
       IF RepeatAgain(args.num_repeat, i, rep.first_call)
       THEN /\ rep' = [rep EXCEPT !.iter = "none", !.i = i]
            /\ pending' = Carried(pending)
            /\ UNCHANGED <<buffer, eos, produced>>
       ELSE /\ rep' = [rep EXCEPT !.iter = "end", !.i = i]
            /\ pending' = <<>>
            /\ buffer' = buffer \o Remainder(pending)
            /\ produced' = IF record THEN produced \o Remainder(pending) ELSE produced
            /\ eos' = (Remainder(pending) = <<>>)
    /\ UNCHANGED <<files, args, ds, order, il, pos, ready, last, delivered, orders, out, record, calls>>

(* prefetch's thread, after the short batch: once the buffer has room again it calls *)
(* batch, which returns the end of the stream, and prefetch records the end          *)
EndStream ==
    /\ Producing
    /\ rep.iter = "end"
    /\ eos' = TRUE
    /\ UNCHANGED <<files, args, ds, rep, order, il, pos, ready, pending, buffer, last,
                   produced, delivered, orders, out, record, calls>>

----------------------------------------------------------------------------
(* The consumer: next() on the dataset's iterator *)

(* variant: the newest batch first *)
Newest(buf) == buf[Len(buf)]

(* prefetch hands out the oldest batch of the buffer *)
Oldest(buf) == Head(buf)

Rest(buf) == Tail(buf)

GetBatch ==
    /\ ds.status = "ok"
    /\ buffer # <<>>
    /\ ~IsFailure(Oldest(buffer))
    /\ delivered' = Hist(delivered, Oldest(buffer))
    /\ buffer' = Rest(buffer)
    /\ last' = "batch"
    /\ UNCHANGED <<files, args, ds, rep, order, il, pos, ready, pending, eos,
                   produced, orders, out, record, calls>>

(* the buffer is empty and the producer has ended: OutOfRangeError / StopIteration *)
GetEnd ==
    /\ ds.status = "ok"
    /\ buffer = <<>>
    /\ eos
    /\ last' = "OutOfRange"
    /\ UNCHANGED <<files, args, ds, rep, order, il, pos, ready, pending, buffer, eos,
                   produced, delivered, orders, out, record, calls>>

(* the oldest element of the buffer is an error status: the request raises it; the *)
(* iterator stays usable and the next request takes the next element             *)
GetError ==
    /\ ds.status = "ok"
    /\ buffer # <<>>
    /\ IsFailure(Oldest(buffer))
    /\ delivered' = Hist(delivered, Oldest(buffer))
    /\ buffer' = Rest(buffer)
    /\ last' = "InvalidArgumentError"
    /\ UNCHANGED <<files, args, ds, rep, order, il, pos, ready, pending, eos,
                   produced, orders, out, record, calls>>

(* the steps of prefetch's thread *)
Produce == StartPass \/ MapOut \/ EndPass \/ EndStream

(* the steps of map's runner, which calls interleave *)
Pull == OpenShard \/ InputEnd \/ SkipSlot \/ MapCall \/ CloseShard

(* the calls of deserialization_fn in flight *)
Calls == \E i \in DOMAIN calls : MapDone(i)

(* interleave(num_parallel_calls): the fetch workers, each reads for any shard held *)
Fetch == \E w \in 1..ds.num_parallel_calls : \E s \in 1..Len(files) : FetchWorker(s)

Consume == GetBatch \/ GetEnd

Next == Construct \/ StartPass \/ OpenShard \/ InputEnd \/ SkipSlot \/ MapCall \/ Calls
           \/ MapOut \/ CloseShard \/ EndPass \/ EndStream \/ Fetch \/ GetBatch \/ GetEnd

Spec == Init /\ [][Next]_vars

(* The specification with a malformed record: one record of one shard cannot be parsed *)
BadAt(f, s, i) == [f EXCEPT ![s][i] = Bad]

RecordsOf(f) == UNION { { <<s, i>> : i \in 1..Len(f[s]) } : s \in 1..Len(f) }

ErrInputs ==
    UNION { { <<BadAt(x[1], r[1], r[2]), x[2]>> : r \in RecordsOf(x[1]) } :
            x \in { y \in Catalogs \X ArgSets :
                      /\ Len(y[1]) \in 1..2
                      /\ SumLen(y[1]) * Passes(y[2]) <= MaxStream
                      /\ y[2].prefetch_size = None
                      /\ y[2].num_repeat # Infinite } }

ErrInit == InitWith(TRUE, ErrInputs)

ErrNext == Next \/ MapError \/ GetError

ErrSpec == ErrInit /\ [][ErrNext]_vars

(* The specification of repeated passes over several shards that hold records *)
PassInputs ==
    { x \in Catalogs \X ArgSets :
        /\ Len(x[1]) >= 2
        /\ Len(x[1]) > 2 => (x[2].shards_per_cycle = Some(2) /\ ~x[2].async_cycle)
        /\ \A s \in 1..2 : Len(x[1][s]) > 0
        /\ SumLen(x[1]) <= MaxStream - 1
        /\ x[2].num_repeat \in {Infinite, 2}
        /\ x[2].num_repeat = Infinite => SumLen(x[1]) <= MaxStream - 2
        /\ x[2].prefetch_size = Some(1) }

PassInit == InitWith(TRUE, PassInputs)

PassSpec == PassInit /\ [][Next]_vars

(* The specification of the end-to-end example: two shards of two class blocks of four *)
(* records each, example_per_class = 2, batch_size = 4, cycle_length = 2; and the same  *)
(* with a second shard of one block of two, which ends before the first and leaves the *)
(* last batch short                                                                      *)
ShardA == <<0, 0, 0, 0, 1, 1, 1, 1>>

ShardB == <<2, 2, 2, 2, 3, 3, 3, 3>>

ShardB1 == <<2, 2>>

ExampleInputs ==
    { <<f, a>> : f \in { <<ShardA, ShardB>>, <<ShardA, ShardB1>> },
                 a \in [ example_per_class : {2},
                         batch_size        : {4},
                         shards_per_cycle  : {None, Some(2)},
                         async_cycle       : BOOLEAN,
                         prefetch_size     : {Some(1)},
                         parallelism       : {AUTOTUNE},
                         num_repeat        : {1, Infinite} ] }

ExampleInit == InitWith(TRUE, ExampleInputs)

ExampleSpec == ExampleInit /\ [][Next]_vars

(* The specification of the degrees of parallelism of map: 1, 2 and AUTOTUNE *)
MapInputs ==
    { <<x[1], [x[2] EXCEPT !.parallelism = p]>> :
        x \in { y \in Catalogs \X ArgSets :
                  /\ Len(y[1]) \in 1..2
                  /\ SumLen(y[1]) * Passes(y[2]) <= MaxStream
                  /\ y[2].prefetch_size = Some(1)
                  /\ y[2].num_repeat # Infinite },
        p \in {1, 2, AUTOTUNE} }

MapInit == InitWith(TRUE, MapInputs)

MapSpec == MapInit /\ [][Next]_vars

(* The specification of the optional sizes: not given, 0, and values given, among them *)
(* a shards_per_cycle larger than the number of shards                                 *)
SizeInputs ==
    { <<x[1], [x[2] EXCEPT !.shards_per_cycle = c, !.prefetch_size = p]>> :
        x \in { y \in Catalogs \X ArgSets :
                  /\ Len(y[1]) <= 2
                  /\ SumLen(y[1]) <= MaxStream - 2
                  /\ y[2].shards_per_cycle = None
                  /\ y[2].prefetch_size = None
                  /\ y[2].num_repeat = 1 },
        c \in {None, Some(0), Some(1), Some(3)},
        p \in {None, Some(0), Some(2)} }

SizeInit == InitWith(TRUE, SizeInputs)

SizeSpec == SizeInit /\ [][Next]_vars

(* The liveness specification: no history is kept, so that a stream that repeats forever *)
(* has finitely many states; every thread that can take a step eventually takes one.    *)
(* The stream is read once or forever.                                                   *)
LiveInputs ==
    { x \in Catalogs \X ArgSets :
        /\ SumLen(x[1]) <= MaxStream - 2 /\ x[2].prefetch_size = Some(1) /\ Len(x[1]) <= 2
        /\ x[2].num_repeat \in {Infinite, 1} }

LiveInit == InitWith(FALSE, LiveInputs)

Fairness ==
    /\ WF_vars(Construct)
    /\ WF_vars(Produce)
    /\ WF_vars(Pull)
    /\ WF_vars(Calls)
    /\ WF_vars(Fetch)
    /\ WF_vars(GetBatch)

LiveSpec == LiveInit /\ [][Next]_vars /\ Fairness

----------------------------------------------------------------------------
(* Properties *)

TotalRecords == SumLen(files)

Finite == args.num_repeat # Infinite

GotEnd == last = "OutOfRange"

(* the precondition of the docstring (lines 44-52): in every shard the records of a     *)
(* class are contiguous and every class block is a multiple of example_per_class long *)
ClassRunsAligned(f, epc) ==
    /\ \A i, j \in 1..Len(f) : (i < j /\ f[i] = f[j]) => \A k \in i..j : f[k] = f[i]
    /\ \A c \in { f[i] : i \in 1..Len(f) } :
         Cardinality({ i \in 1..Len(f) : f[i] = c }) % epc = 0

Precondition ==
    /\ args.batch_size % args.example_per_class = 0
    /\ \A s \in 1..Len(files) : ClassRunsAligned(files[s], args.example_per_class)

(* the k-th class-block of batch b: example_per_class consecutive examples of one shard and one class *)
IsClassBlock(b, k) ==
    LET epc == args.example_per_class
        lo  == (k - 1) * epc + 1
    IN  /\ k * epc <= Len(b)
        /\ \A i \in lo..(k * epc) :
             /\ b[i].label = b[lo].label
             /\ b[i].shard = b[lo].shard
             /\ b[i].idx = b[lo].idx + (i - lo)

BalancedBatch(b) ==
    /\ Len(b) = args.batch_size
    /\ \A k \in 1..(args.batch_size \div args.example_per_class) : IsClassBlock(b, k)

(* C1: under the precondition, every batch emitted consists of exactly                 *)
(* batch_size // example_per_class class-blocks of example_per_class consecutive      *)
(* examples of one class each.                                                         *)
C1_EveryBatchBalanced ==
    Precondition => \A n \in 1..Len(produced) : BalancedBatch(produced[n])

(* C2: every batch the sampler emits holds exactly batch_size examples: a trailing     *)
(* group of fewer than batch_size examples is dropped, never emitted short.            *)
C2_NoShortBatch ==
    /\ \A n \in 1..Len(produced) : Len(produced[n]) = args.batch_size
    /\ \A n \in 1..Len(delivered) : Len(delivered[n]) = args.batch_size

(* C3: for num_repeat = k, finite, when the consumer gets the exhaustion signal it has *)
(* received exactly floor(k * total_records / batch_size) batches, and after the       *)
(* signal every request returns the signal again.                                      *)
C3_BatchCount ==
    (Finite /\ GotEnd) =>
        /\ Len(delivered) = (args.num_repeat * TotalRecords) \div args.batch_size
        /\ buffer = <<>> /\ eos

(* C4: with num_repeat = -1 and a non-empty shard the stream never ends, and a consumer *)
(* that keeps requesting receives a batch again and again.                              *)
NeverEnding == args.num_repeat = Infinite /\ TotalRecords > 0

C4_InfiniteRepeatNeverExhausts ==
    NeverEnding => ([](~eos /\ last # "OutOfRange") /\ []<><<GetBatch>>_vars)

(* a second pass is about to start after a batch of the first was delivered *)
C4_Witness ==
    NeverEnding /\ rep.iter = "none" /\ ~rep.first_call /\ last = "batch" /\ pending # <<>>

----------------------------------------------------------------------------
(* The stream of one pass as one reader without workers would yield it: the sequential *)
(* interleave of the shards in the order ord, on fresh readers                       *)
RECURSIVE Drain(_, _, _)
Drain(ord, x, p) ==
    IF x.end_of_input /\ x.num_open = 0 THEN <<>>
    ELSE LET c == x.cycle_index
             s == x.slots[c]
             next == (c % Len(x.slots)) + 1
         IN  IF s # 0
             THEN IF p[s] < Len(files[s])
                  THEN <<<<s, p[s] + 1>>>> \o
                       Drain(ord,
                             IF x.block_index + 1 = args.example_per_class
                             THEN [x EXCEPT !.cycle_index = next, !.block_index = 0]
                             ELSE [x EXCEPT !.block_index = @ + 1],
                             [p EXCEPT ![s] = @ + 1])
                  ELSE Drain(ord, [x EXCEPT !.slots[c] = 0, !.num_open = @ - 1,
                                            !.cycle_index = next, !.block_index = 0], p)
             ELSE IF ~x.end_of_input
                  THEN IF x.next_input <= Len(ord)
                       THEN Drain(ord, [x EXCEPT !.slots[c] = ord[x.next_input],
                                                 !.next_input = @ + 1, !.num_open = @ + 1], p)
                       ELSE Drain(ord, [x EXCEPT !.end_of_input = TRUE], p)
                  ELSE Drain(ord, [x EXCEPT !.cycle_index = next, !.block_index = 0], p)

PassStream(ord) ==
    Drain(ord, NewIter(cycle_length_of(args, Len(files))), [s \in 1..Len(files) |-> 0])

Examples(rs) == [i \in 1..Len(rs) |-> Deserialize(rs[i])]

IsPrefix(a, b) == Len(a) <= Len(b) /\ a = SubSeq(b, 1, Len(a))

(* the examples that have left repeat so far *)
StreamSoFar == Flatten(produced) \o pending

(* the records of the pass that have left map: all that left interleave but those *)
(* whose calls are in flight                                                       *)
LeftMap == SubSeq(out, 1, Len(out) - Len(calls))

(* C5: the batches are a function of the shard contents and of the shard order of each *)
(* pass: whatever the fetch workers and the threads do, the records leave interleave   *)
(* in the order of the sequential interleave of the pass, the stream that is batched   *)
(* is the sequential interleave of every pass started, in order, up to the records     *)
(* whose calls are in flight, and the batches are its consecutive windows; so two runs *)
(* with the same orders yield the same batches, with async_cycle or without.           *)
C5_Deterministic ==
    (record /\ ds.status = "ok" /\ orders # <<>>) =>
        LET n == Len(orders)
            before == Flatten([i \in 1..(n - 1) |-> Examples(PassStream(orders[i]))])
        IN  /\ IsPrefix(out, PassStream(orders[n]))
            /\ StreamSoFar = before \o Examples(LeftMap)
            /\ \A k \in 1..Len(produced) : k < Len(produced) => Len(produced[k]) = args.batch_size

(* the workers have read ahead for another shard of the cycle and for a shard that  *)
(* is not yet in the cycle, while the shard whose turn it is has records left and   *)
(* none ready, and a batch has been produced                                        *)
C5_Witness ==
    /\ record /\ args.async_cycle /\ rep.iter = "open" /\ produced # <<>>
    /\ il.slots[il.cycle_index] # 0 /\ ready[il.slots[il.cycle_index]] = <<>>
    /\ ~Exhausted(il.cycle_index)
    /\ \E c \in 1..ds.cycle_length :
         c # il.cycle_index /\ il.slots[c] # 0 /\ Len(ready[il.slots[c]]) = MaxAhead
    /\ \E s \in AheadOfCycle : ready[s] # <<>>

-----------------------------------------------------------------------------
(* the records of shard s among rs *)
CountOf(s, rs) == Cardinality({ i \in 1..Len(rs) : rs[i][1] = s })

OpenSlots == { c \in 1..Len(il.slots) : il.slots[c] # 0 }

Opened == { order[k] : k \in 1..(il.next_input - 1) }

(* one step of the cycle scheduler, in a pass *)
TurnStep ==
    LET c == il.cycle_index
        s == il.slots[c]
        after == (c % Len(il.slots)) + 1
        emitted == Len(out') = Len(out) + 1
    IN  /\ emitted =>
            (* the next record of the shard whose turn it is *)
            /\ s # 0
            /\ out'[Len(out')] = <<s, CountOf(s, out) + 1>>
            /\ il'.slots = il.slots
            (* the turn passes on after exactly example_per_class records *)
            /\ IF il.block_index + 1 = args.example_per_class
               THEN il'.cycle_index = after /\ il'.block_index = 0
               ELSE il'.cycle_index = c /\ il'.block_index = il.block_index + 1
        /\ (~emitted /\ il' # il) =>
            (* a turn ends early only on a shard that has yielded all its records: the *)
            (* shard is closed; an empty slot is given to the next shard of the        *)
            (* shuffled order not yet opened, and passed over once there is none left  *)
            \/ /\ s # 0
               /\ CountOf(s, out) = Len(files[s])
               /\ il'.slots = [il.slots EXCEPT ![c] = 0]
               /\ il'.cycle_index = after /\ il'.block_index = 0
            \/ /\ s = 0
               /\ il.next_input <= Len(order)
               /\ order[il.next_input] \notin Opened
               /\ il'.slots = [il.slots EXCEPT ![c] = order[il.next_input]]
               /\ il'.next_input = il.next_input + 1
               /\ il'.cycle_index = c /\ il'.block_index = il.block_index
            \/ /\ s = 0
               /\ il.next_input > Len(order)
               /\ il'.slots = il.slots
               /\ il'.cycle_index \in {c, after}
        /\ rep'.iter # "open" =>
            (* the pass ends only when every shard is exhausted *)
            /\ OpenSlots = {}
            /\ Len(out) = TotalRecords
            /\ \A f \in 1..Len(files) : CountOf(f, out) = Len(files[f])

(* C6: the cycle scheduler emits in round-robin turns over the open shards: a turn     *)
(* takes example_per_class consecutive records of one shard (fewer only if the shard   *)
(* ends), then passes to the next slot; a shard that is exhausted is closed and its    *)
(* slot given to the next shard of the shuffled order not yet opened; the pass ends    *)
(* only when all shards are exhausted.                                                 *)
C6_RoundRobinTurns ==
    [][(record /\ rep.iter = "open") => TurnStep]_vars

(* a slot was given to a later shard of the order while another shard is still open *)
C6_Witness ==
    /\ record /\ rep.iter = "open" /\ Len(il.slots) >= 2
    /\ args.example_per_class = 2
    /\ \E c, d \in OpenSlots :
         /\ c # d
         /\ \E k \in (Len(il.slots) + 1)..Len(order) : il.slots[c] = order[k]
         /\ CountOf(il.slots[c], out) > 0
         /\ CountOf(il.slots[d], out) > 0

----------------------------------------------------------------------------
(* the shards whose file is open: those of the cycle, and those a worker has read a *)
(* record of and not read to the end                                                *)
OpenShards ==
    InCycle \cup { s \in 1..Len(files) : 0 < pos[s] /\ pos[s] < Len(files[s]) }

(* C7: at most cycle_length shards are open at any time, and a cycle_length that    *)
(* exceeds the number of shards is clamped to it.                                    *)
C7_CycleLengthClamped ==
    ds.status = "ok" =>
        /\ Cardinality(OpenShards) <= ds.cycle_length
        /\ ds.cycle_length <= ds.total_shards

----------------------------------------------------------------------------
(* C8: when no shard file matches, construction fails with CatalogError, before any  *)
(* batch is requested or produced; no dataset is returned.                            *)
C8_NoShardsFailsAtConstruction ==
    (Len(files) = 0 /\ ds.status # "new") =>
        /\ ds.status = "failed"
        /\ ds.error = "CatalogError"
        /\ rep.iter = "none" /\ orders = <<>>
        /\ buffer = <<>> /\ pending = <<>> /\ produced = <<>> /\ delivered = <<>>
        /\ last = "none" /\ ~eos

----------------------------------------------------------------------------
(* C9: the prefetch buffer never holds more than prefetch_size batches, 10 when *)
(* prefetch_size is not given.                                                  *)
C9_BufferBounded ==
    Len(buffer) <=
        (IF args.prefetch_size # None THEN Val(args.prefetch_size) ELSE DefaultPrefetch)

(* prefetch_size is not given, the buffer holds 10 batches and the producer, for which *)
(* map has the next example, is blocked                                               *)
C9_Witness ==
    /\ ds.status = "ok" /\ ~eos /\ rep.iter = "open"
    /\ args.prefetch_size = None
    /\ Len(buffer) = DefaultPrefetch
    /\ ~ENABLED Produce
    /\ calls # <<>> /\ calls[1].done

----------------------------------------------------------------------------
(* C10: the prefetch buffer is FIFO: what the consumer has received followed by what the *)
(* buffer holds is what the batcher produced, in order; so the batches delivered are a  *)
(* prefix of the batches produced, none duplicated, skipped or reordered.               *)
C10_Fifo ==
    record => (produced = delivered \o buffer /\ IsPrefix(delivered, produced))

(* the consumer has received two batches and two more wait in the buffer *)
C10_Witness ==
    /\ record /\ Len(delivered) >= 2 /\ Len(buffer) >= 2
    /\ delivered[1] # delivered[2] /\ buffer[1] # buffer[2]

----------------------------------------------------------------------------
(* A malformed record *)

BadRecord == CHOOSE r \in RecordsOf(files) : Malformed(r)

HasBadRecord == \E r \in RecordsOf(files) : Malformed(r)

(* the place of record r in the sequence rs *)
PlaceOf(r, rs) == CHOOSE j \in 1..Len(rs) : rs[j] = r

FailuresIn(bs) == { k \in 1..Len(bs) : IsFailure(bs[k]) }

(* up to the first error the consumer has received, in order, the full batches of the *)
(* records that precede the malformed record in the stream, and only then the error;  *)
(* the malformed record is in no batch                                                *)
ErrorInPlace ==
    /\ \A k \in 1..Len(delivered) :
         ~IsFailure(delivered[k]) => \A i \in 1..Len(delivered[k]) : delivered[k][i].label # Bad
    /\ FailuresIn(delivered) # {} =>
         LET k == CHOOSE n \in FailuresIn(delivered) : \A o \in FailuresIn(delivered) : n <= o
             stream == PassStream(orders[1])
             j == PlaceOf(BadRecord, stream)
         IN  /\ delivered[k] = Failure(BadRecord)
             /\ k - 1 = (j - 1) \div args.batch_size
             /\ Flatten(SubSeq(delivered, 1, k - 1))
                  = Examples(SubSeq(stream, 1, (k - 1) * args.batch_size))

(* in a stream of one pass, nothing but the end of the stream follows the error *)
NothingAfterError ==
    args.num_repeat = 1 => \A k \in FailuresIn(delivered) : k = Len(delivered)

(* C11: with one malformed record, the consumer receives every batch made only of    *)
(* records that precede it in the stream, then the error when the batch holding the  *)
(* record is requested: never before those batches, the record is never skipped, and *)
(* no batch of the current pass is delivered after the error.                        *)
C11_MalformedRecordAbortsPass ==
    (record /\ HasBadRecord) => (ErrorInPlace /\ NothingAfterError)

----------------------------------------------------------------------------
(* Passes *)

AllRecordsOnce(rs) ==
    /\ Len(rs) = TotalRecords
    /\ \A r \in RecordsOf(files) : Cardinality({ i \in 1..Len(rs) : rs[i] = r }) = 1

FreshPass ==
    LET starts == rep.iter = "none" /\ rep'.iter = "open"
        ends   == rep.iter = "open" /\ rep'.iter # "open"
    IN  /\ starts =>
            (* whatever the order of the pass before, every order can be drawn *)
            /\ \A p \in Perms(Len(files)) : ENABLED (StartPass /\ order' = p)
            /\ order' \in Perms(Len(files))
            (* no shard is open and no record of the pass before is left to read *)
            /\ il' = NewIter(ds.cycle_length)
            /\ \A s \in 1..Len(files) : pos'[s] = 0
            /\ \A s \in 1..Len(files) : ready'[s] = <<>>
            /\ out' = <<>>
            (* and no record of the pass before is left in map *)
            /\ calls' = <<>>
        /\ ends =>
            (* the pass has emitted every record of every shard once *)
            /\ AllRecordsOnce(out)
            /\ OpenSlots = {}

(* C12: every pass of a repeated stream starts with a fresh shuffle and a fresh cycle  *)
(* scheduler: its shard order can be any permutation, whatever the order of the pass   *)
(* before; no shard is open from the pass before; and every pass emits the same        *)
(* multiset of records, every record of every shard once.                              *)
C12_FreshPass == [][record => FreshPass]_vars

(* a second pass over two shards that hold records, in the order opposite to the first, *)
(* has emitted records of both                                                          *)
C12_Witness ==
    /\ record /\ Len(orders) = 2 /\ orders[1] # orders[2]
    /\ rep.iter = "open"
    /\ \E i, j \in 1..Len(out) : out[i][1] # out[j][1]

----------------------------------------------------------------------------
(* C13: within one pass every record of every shard is emitted exactly once, and the  *)
(* records of one shard come out in file order: the i-th record a pass emits of a     *)
(* shard is the i-th record of its file, whatever the order the shards were opened in; *)
(* when the pass has ended, every record of every shard has been emitted once.         *)
C13_EveryRecordOnceInFileOrder ==
    record =>
        /\ \A i \in 1..Len(out) :
             out[i] = <<out[i][1], CountOf(out[i][1], SubSeq(out, 1, i - 1)) + 1>>
        /\ \A i \in 1..Len(out) : out[i] \in RecordsOf(files)
        /\ (orders # <<>> /\ rep.iter # "open") => AllRecordsOnce(out)

(* a pass that opened the shards in another order than the catalog's has ended, and the *)
(* records of two shards were interleaved                                               *)
C13_Witness ==
    /\ record /\ orders # <<>> /\ rep.iter # "open"
    /\ order[1] # 1
    /\ \E i, j, k \in 1..Len(out) :
         i < j /\ j < k /\ out[i][1] = out[k][1] /\ out[j][1] # out[i][1]

----------------------------------------------------------------------------
(* The end-to-end example *)

ClassesOf(b) == { b[i].label : i \in 1..Len(b) }

(* C14: for shards A = [0,0,0,0,1,1,1,1] and B = [2,2,2,2,3,3,3,3], example_per_class  *)
(* 2, batch_size 4 and cycle_length 2, the first batch holds the first 2 examples of  *)
(* the first class block of one shard followed by the first 2 of the first class      *)
(* block of the other, and every batch, in every pass and for either shard order,     *)
(* holds at most 2 classes and exactly 2 examples of each class it holds.             *)
C14_ExampleBatches ==
    (/\ record /\ ds.status = "ok"
     /\ files = <<ShardA, ShardB>>
     /\ args.example_per_class = 2 /\ args.batch_size = 4) =>
        /\ ds.cycle_length = 2
        /\ produced # <<>> =>
             LET b == produced[1]
                 s == orders[1][1]
                 t == orders[1][2]
             IN  b = << [shard |-> s, idx |-> 1, label |-> files[s][1]],
                        [shard |-> s, idx |-> 2, label |-> files[s][1]],
                        [shard |-> t, idx |-> 1, label |-> files[t][1]],
                        [shard |-> t, idx |-> 2, label |-> files[t][1]] >>
        /\ \A n \in 1..Len(produced) :
             /\ Cardinality(ClassesOf(produced[n])) <= 2
             /\ \A c \in ClassesOf(produced[n]) :
                  Cardinality({ i \in 1..Len(produced[n]) : produced[n][i].label = c }) = 2

(* the consumer has received the batches of the first pass and one of the second, which *)
(* opened the shards in the other order                                                 *)
C14_Witness ==
    /\ record /\ files = <<ShardA, ShardB>>
    /\ Len(orders) = 2 /\ orders[1] # orders[2]
    /\ Len(delivered) >= 5
    /\ delivered[1] # delivered[5]

----------------------------------------------------------------------------
(* A shard that ends within a block *)

(* the shard whose turn it is has yielded all its records and its block is not full *)
EndedInBlock ==
    /\ rep.iter = "open"
    /\ il.slots[il.cycle_index] # 0
    /\ il.block_index > 0
    /\ CountOf(il.slots[il.cycle_index], out) = Len(files[il.slots[il.cycle_index]])

ShortBlockStep ==
    LET c == il.cycle_index
        after == (c % Len(il.slots)) + 1
    IN  /\ (EndedInBlock /\ (il' # il \/ out' # out)) =>
            (* the short block is left as it is and the turn passes to the next slot: *)
            (* nothing is raised, no record is emitted, dropped or read again         *)
            /\ il'.slots = [il.slots EXCEPT ![c] = 0]
            /\ il'.cycle_index = after /\ il'.block_index = 0
            /\ il'.next_input = il.next_input
            /\ out' = out /\ pending' = pending /\ produced' = produced
            /\ ds' = ds /\ rep' = rep /\ eos' = eos /\ last' = last
        /\ (rep.iter = "open" /\ Len(out') = Len(out) + 1) =>
            (* every record emitted, after a short block too, is the next record of its *)
            (* shard and enters map behind the records emitted before it                *)
            LET r == out'[Len(out')] IN
            /\ r = <<r[1], CountOf(r[1], out) + 1>>
            /\ calls' = Append(calls, [rec |-> r, done |-> FALSE])
            /\ pending' = pending /\ produced' = produced
        /\ Len(calls') < Len(calls) =>
            (* the record that leaves map is the one that entered it first, and it goes *)
            (* into the batch being assembled                                           *)
            /\ calls' = Tail(calls)
            /\ Flatten(produced') \o pending' =
                 Flatten(produced) \o pending \o <<Deserialize(Head(calls).rec)>>
            /\ \A n \in 1..Len(produced') : Len(produced'[n]) = args.batch_size

(* C15: when a shard's record count is not a multiple of example_per_class, the       *)
(* scheduler leaves the shard's last block short and passes the turn to the next slot *)
(* without an error and without dropping or duplicating a record, and the records     *)
(* that follow are batched as before.                                                 *)
C15_ShortFinalBlock == [][record => ShortBlockStep]_vars

(* a batch holds the last record of a shard that ended within a block, followed by a *)
(* record of another shard                                                           *)
C15_Witness ==
    /\ record /\ args.example_per_class = 2
    /\ \E n \in 1..Len(delivered) : \E i \in 1..(Len(delivered[n]) - 1) :
         LET e == delivered[n][i] IN
         /\ e.idx = Len(files[e.shard])
         /\ Len(files[e.shard]) % args.example_per_class # 0
         /\ delivered[n][i + 1].shard # e.shard

----------------------------------------------------------------------------
(* C16: map is an ordered parallel map: whatever the degree of parallelism and the    *)
(* order in which the calls of deserialization_fn return, the examples that leave map *)
(* are the examples of the records that entered it, one for one and in their order;   *)
(* the calls in flight are those of the records that entered after them.              *)
C16_OrderedParallelMap ==
    (record /\ ds.status = "ok" /\ orders # <<>>) =>
        LET n == Len(orders)
            before == Flatten([i \in 1..(n - 1) |-> Examples(PassStream(orders[i]))])
            left == Len(out) - Len(calls)
        IN  /\ left >= 0
            /\ StreamSoFar = before \o Examples(SubSeq(out, 1, left))
            /\ \A i \in 1..Len(calls) : calls[i].rec = out[left + i]
            /\ \E d \in Degrees : Len(calls) <= d

(* with AUTOTUNE as many calls as the run time allows are in flight, on records of two *)
(* shards; the last has returned and the first has not, after examples left map       *)
C16_Witness ==
    /\ record /\ args.parallelism = AUTOTUNE /\ Len(calls) = MaxParallel
    /\ ~calls[1].done /\ calls[Len(calls)].done
    /\ StreamSoFar # <<>>
    /\ calls[1].rec[1] # calls[Len(calls)].rec[1]

----------------------------------------------------------------------------
(* The fetch workers *)

(* the shards a worker reads for: it can read at this moment, or has read ahead *)
Fetching == { s \in 1..Len(files) : ENABLED FetchWorker(s) \/ ready[s] # <<>> }

(* the shards of the cycle, with those that take its empty slots next *)
CycleShards ==
    InCycle \cup { order[k] : k \in il.next_input ..
                       Min(Len(order), il.next_input - 1 + (ds.cycle_length - il.num_open)) }

(* C17: with async_cycle the number of fetch workers is exactly cycle_length, and they *)
(* read for the shards of the cycle only; without it there is one reader, and it is   *)
(* synchronous: it reads a record only when interleave is asked for the next record   *)
(* and it is the turn of the record's slot, never ahead; and the number does not      *)
(* depend on batch_size or example_per_class.                                         *)
C17_FetchWorkers ==
    ds.status = "ok" =>
        /\ ds.num_parallel_calls = (IF args.async_cycle THEN ds.cycle_length ELSE 1)
        /\ \A b \in {1, 2, 4, 32}, e \in {1, 2, 4} :
             num_parallel_calls_of([args EXCEPT !.batch_size = b, !.example_per_class = e],
                                   ds.cycle_length) = ds.num_parallel_calls
        /\ args.async_cycle => Fetching \subseteq CycleShards
        /\ ~args.async_cycle =>
             \A s \in 1..Len(files) :
                 ready[s] # <<>> =>
                     (Len(ready[s]) = 1 /\ s = il.slots[il.cycle_index] /\ Iterating)

----------------------------------------------------------------------------
(* Blocking *)

(* the stream has not ended and the producing side (prefetch's thread, map's runner, *)
(* the calls of deserialization_fn and the fetch workers) can take no step          *)
ProducerBlocked == ds.status = "ok" /\ ~eos /\ ~ENABLED (Produce \/ Pull \/ Calls \/ Fetch)

(* a request of the consumer cannot be answered yet *)
ConsumerBlocked == ds.status = "ok" /\ ~ENABLED Consume

BlockedOnlyByBuffer ==
    /\ ProducerBlocked => Len(buffer) = ds.prefetch_size
    /\ ConsumerBlocked => (buffer = <<>> /\ ~eos)
    /\ ~(ProducerBlocked /\ ConsumerBlocked)

(* C18: the pipeline never deadlocks: the producing side waits only on a full prefetch *)
(* buffer and the consumer only on an empty one, never both at once; and with every    *)
(* thread scheduled fairly, a consumer that waits is eventually answered, with a batch  *)
(* or with the end of the stream.                                                       *)
C18_NoDeadlock ==
    /\ []BlockedOnlyByBuffer
    /\ ConsumerBlocked ~> (ds.status = "ok" /\ ENABLED Consume)

(* the consumer, which has received a batch, waits on the empty buffer while        *)
(* prefetch's thread waits for a call of deserialization_fn that has not returned and *)
(* map's runner waits for a fetch worker                                              *)
C18_Witness ==
    /\ ConsumerBlocked /\ last = "batch"
    /\ rep.iter = "open"
    /\ ~ENABLED Produce /\ ~ENABLED Pull
    /\ calls # <<>> /\ ~calls[1].done
    /\ pending # <<>>

----------------------------------------------------------------------------
(* Batches over the passes *)

(* C19: batch is applied to the repeated stream, so the batches are the consecutive    *)
(* windows of batch_size examples over the concatenation of the passes: the examples   *)
(* batched so far are, pass after pass, every record of a pass that has ended, once,   *)
(* followed by what has left map of the current pass; a batch that a pass leaves       *)
(* incomplete is kept and completed with the first records of the next pass; and only  *)
(* the last batch of the whole stream, at the end of the last pass, can be short.      *)
C19_BatchesSpanPasses ==
    (record /\ ds.status = "ok" /\ orders # <<>>) =>
        LET stream == StreamSoFar
            ended == Len(orders) - 1
            T == TotalRecords
        IN  /\ Len(stream) = ended * T + Len(LeftMap)
            /\ \A i \in 1..ended : \A r \in RecordsOf(files) :
                 Cardinality({ j \in ((i - 1) * T + 1)..(i * T) : stream[j] = Deserialize(r) }) = 1
            /\ SubSeq(stream, ended * T + 1, Len(stream)) = Examples(LeftMap)
            /\ \A k \in 1..Len(produced) :
                 Len(produced[k]) < args.batch_size => (k = Len(produced) /\ rep.iter = "end")
            /\ ~eos => Len(pending) < args.batch_size
            /\ (rep.iter = "none" /\ ~eos) =>
                 Len(pending) = (Len(orders) * T) % args.batch_size

(* the consumer has received a full batch that holds the last records of the first pass *)
(* followed by the first records of the second                                          *)
C19_Witness ==
    /\ record /\ Len(orders) >= 2
    /\ TotalRecords > args.batch_size
    /\ TotalRecords % args.batch_size # 0
    /\ Len(delivered) > TotalRecords \div args.batch_size
    /\ LET b == delivered[(TotalRecords \div args.batch_size) + 1]
           cut == TotalRecords % args.batch_size
       IN  /\ Len(b) = args.batch_size
           /\ <<b[cut].shard, b[cut].idx>> = PassStream(orders[1])[TotalRecords]
           /\ <<b[cut + 1].shard, b[cut + 1].idx>> = PassStream(orders[2])[1]

----------------------------------------------------------------------------
(* The optional sizes *)

Falsy(o) == o \in {None, Some(0)}

(* C20: an optional size that is None or 0 is taken as not given: prefetch_size None or *)
(* 0 gives a prefetch buffer of 10 batches, shards_per_cycle None or 0 gives a          *)
(* cycle_length of the number of shards; any other value is used as it is, and no      *)
(* value is rejected.                                                                   *)
C20_FalsySizesNotGiven ==
    ds.status # "new" =>
        /\ ds.prefetch_size =
             (IF Falsy(args.prefetch_size) THEN DefaultPrefetch ELSE Val(args.prefetch_size))
        /\ ds.cycle_length =
             (IF Falsy(args.shards_per_cycle) THEN Len(files) ELSE Val(args.shards_per_cycle))
        /\ ds.status = "failed" => Len(files) = 0
        /\ ds.status = "ok" =>
             /\ Len(buffer) <= ds.prefetch_size
             /\ rep.iter = "open" => Len(il.slots) = ds.cycle_length

(* with prefetch_size = 0 and shards_per_cycle = 0 two batches wait in the buffer and *)
(* both shards are open                                                               *)
C20_Witness ==
    /\ ds.status = "ok"
    /\ args.prefetch_size = Some(0) /\ args.shards_per_cycle = Some(0)
    /\ Len(buffer) >= 2
    /\ rep.iter = "open" /\ Cardinality(OpenSlots) = 2

====
